---------------------------- MODULE Spec2Model ----------------------------
(***************************************************************************)
(* Rich-text migration: the two migration modules of the repository.       *)
(*                                                                         *)
(*   "mapi"     src/unnamed/part_000: transformNodeToMapiRichText driven   *)
(*              by traverseAndTransformNodesAsync, serializeKnownAttributes*)
(*   "registry" src/src/migrations/0-add-rich-text-content.ts: the         *)
(*              transformers map {i, img} driven by nodesToHTMLAsync       *)
(*                                                                         *)
(* Strings are sequences of tokens.  Every punctuation character of the    *)
(* templates is a token of its own; tag names, attribute names, attribute  *)
(* values, text contents and identifiers are atomic tokens that contain no *)
(* punctuation.  Two strings built this way are equal exactly when their   *)
(* token sequences are equal, and string concatenation is \o.              *)
(***************************************************************************)
EXTENDS Naturals, Sequences, FiniteSets

VARIABLES
  variant,        \* which migration module runs: "mapi" or "registry"
  doc,            \* the parsed fragment: node id -> node record (read-only)
  st,             \* per node: position of its asynchronous task
  out,            \* per node: the string its transformer resolved with
  invoked,        \* per node: number of transformer invocations
  fileReference,  \* per node: local `fileReference.id` of its img task (0: none)
  files,          \* storage client: binary files, files[k] = node whose bytes
  assets,         \* storage client: assets, assets[j] = [file |-> k]
  failed,         \* nodes whose fetch / upload / registration threw
  errorLog,       \* nodes reported through console.error
  outOfOrder,     \* history: some node resolved before an earlier sibling
  traversal,      \* the top-level promise: "running", "resolved", "rejected"
  result,         \* the joined output string once the traversal resolved
  runPc,          \* position of migration.run
  calls,          \* content-API calls made by run, in order
  persisted,      \* rich-text value handed to upsertLanguageVariant
  attrInput,      \* attribute mapping given to serializeKnownAttributes
  attrOutput,     \* what serializeKnownAttributes returned for it
  attrPc          \* "idle" (main model), "input", "serialized"

vars == <<variant, doc, st, out, invoked, fileReference, files, assets, failed,
          errorLog, outOfOrder, traversal, result, runPc, calls, persisted,
          attrInput, attrOutput, attrPc>>

treeVars == <<variant, doc>>
attrVars == <<attrInput, attrOutput, attrPc>>
runVars  == <<runPc, calls, persisted>>

---------------------------------------------------------------------------
(* Bounds *)

\* number of nodes of the fragment
MaxNodes == 3

\* largest attribute mapping given to serializeKnownAttributes on its own
MaxAttrs == 2

---------------------------------------------------------------------------
(* Strings *)

\* the value `undefined` of an attribute (Record<string, string | undefined>)
Undefined == "<undefined>"

\* a template literal renders undefined as the text "undefined"
ValueText(v) == IF v = Undefined THEN "undefined" ELSE v

RECURSIVE JoinWith(_, _)
\* Array.prototype.join(sep) over an array of strings
JoinWith(items, sep) ==
  IF Len(items) = 0 THEN <<>>
  ELSE IF Len(items) = 1 THEN items[1]
  ELSE items[1] \o sep \o JoinWith(Tail(items), sep)

---------------------------------------------------------------------------
(* Attribute filter *)

allowedRichTextElementAttributes ==
  << "data-item-id", "data-item-external-id", "data-item-codename",
     "data-asset-id", "data-asset-external-id", "data-asset-codename",
     "data-new-window", "title", "target", "href", "data-image-id",
     "data-rel", "data-type", "data-codename", "data-id", "data-external-id",
     "src", "type", "data-id", "data-email-address", "data-email-subject",
     "data-phone-number" >>

\* Array.prototype.includes
Includes(arr, x) == \E i \in 1..Len(arr) : arr[i] = x

\* `${key}="${value}"`
AttributeToken(entry) == <<entry[1], "=", "\"", ValueText(entry[2]), "\"">>

\* faulty variant: an allow-list cut short after "target"
FilterKnownWrongList(entries) ==
  SelectSeq(entries, LAMBDA e :
     Includes(SubSeq(allowedRichTextElementAttributes, 1, 9), e[1]))
\* .filter(([key]) => allowed.includes(key))
FilterKnown(entries) ==
  SelectSeq(entries, LAMBDA e : Includes(allowedRichTextElementAttributes, e[1]))

\* .map(([key, value]) => `${key}="${value}"`)
MapTokens(entries) == [i \in 1..Len(entries) |-> AttributeToken(entries[i])]

\* Object.entries(attributes).filter(...).map(...).join(" ")
serializeKnownAttributes(attributes) ==
  JoinWith(MapTokens(FilterKnown(attributes)), <<" ">>)

---------------------------------------------------------------------------
(* Node model *)

Nodes == 1..MaxNodes

TextNode(c) ==
  [type |-> "text", tagName |-> "", attributes |-> <<>>, content |-> c]
ElementNode(tag, attrs) ==
  [type |-> "tag", tagName |-> tag, attributes |-> attrs, content |-> ""]

\* the nodes a parsed fragment is made of: for each migration, a text, an
\* element without attributes, an element its transformer treats on its
\* own, an img with src and an img without
NodeKinds(v) ==
  { TextNode("hi"),
    ElementNode("p", <<>>),
    IF v = "registry" THEN ElementNode("i", <<>>)
                      ELSE ElementNode("span", << <<"title", "x">> >>),
    ElementNode("img", << <<"class", "c">>, <<"src", "u">> >>),
    ElementNode("img", << <<"alt", "t">> >>) }

\* isElement(node)
isElement(node) == node.type = "tag"

\* node.attributes[name]; Undefined when the mapping has no such key
Attribute(node, name) ==
  IF \E i \in 1..Len(node.attributes) : node.attributes[i][1] = name
  THEN LET i == CHOOSE i \in 1..Len(node.attributes) :
                   node.attributes[i][1] = name
       IN  node.attributes[i][2]
  ELSE Undefined

\* truthiness of node.attributes.src
HasSrc(node) == Attribute(node, "src") \notin {Undefined, ""}

\* the parser emits text and img (a void element) as leaves
IsLeafKind(node) == ~isElement(node) \/ node.tagName = "img"

RECURSIVE AncestorsOrSelf(_, _)
AncestorsOrSelf(par, n) ==
  IF n = 0 THEN {} ELSE {n} \cup AncestorsOrSelf(par, par[n])

\* parent functions of the fragments with MaxNodes nodes, numbered in
\* document order (0: the node is a member of the top-level sequence)
Parents ==
  { par \in [Nodes -> 0..MaxNodes] :
      /\ \A n \in Nodes : par[n] < n
      /\ \A n \in Nodes \ {1} :
            par[n] = 0 \/ par[n] \in AncestorsOrSelf(par, n - 1) }

RECURSIVE SeqOfSet(_)
\* the members of a set of node ids in document order
SeqOfSet(S) ==
  IF S = {} THEN <<>>
  ELSE LET m == CHOOSE x \in S : \A y \in S : x <= y
       IN  <<m>> \o SeqOfSet(S \ {m})

\* node.children, and the top-level sequence for n = 0
Children(n) == SeqOfSet({c \in Nodes : doc[c].parent = n})

RECURSIVE Descendants(_)
Descendants(n) ==
  LET cs == {c \in Nodes : doc[c].parent = n}
  IN  cs \cup UNION {Descendants(c) : c \in cs}

---------------------------------------------------------------------------
(* Transformers *)

\* identifiers the storage client hands out, by order of creation
AssetIds == <<"asset1", "asset2", "asset3", "asset4", "asset5", "asset6">>

\* `<figure data-asset-id="${id}"></figure>`
Figure(id) ==
  <<"<", "figure", " ", "data-asset-id", "=", "\"", id, "\"", ">",
    "<", "/", "figure", ">">>

\* `<${node.tagName}/>`
Placeholder(node) == <<"<", node.tagName, "/", ">">>

\* faulty variant: the items joined last to first
JoinItemsReversed(items) ==
  JoinWith([i \in 1..Len(items) |-> items[Len(items) + 1 - i]], <<>>)
\* processedItems.join("") and result.join("")
JoinItems(items) == JoinWith(items, <<>>)

\* `<${node.tagName} ${serializeKnownAttributes(node.attributes)}>${innerHtml}</${node.tagName}>`
ReEmit(node, innerHtml) ==
  <<"<", node.tagName, " ">> \o serializeKnownAttributes(node.attributes)
    \o <<">">> \o innerHtml \o <<"<", "/", node.tagName, ">">>

\* the branch of transformNodeToMapiRichText that starts the upload sequence
TakesUploadBranch(node) ==
  isElement(node) /\ node.tagName = "img" /\ HasSrc(node)

\* the synchronous results of transformNodeToMapiRichText
MapiResult(node, processedItems) ==
  IF isElement(node)
  THEN ReEmit(node, JoinItems(processedItems))
  ELSE <<node.content>>

\* transformers.i
EmTransformer(children) ==
  <<"<", "em", ">">> \o children \o <<"<", "/", "em", ">">>

\* the re-emit of an element the registry has no transformer for
DefaultTransformer(node, children) ==
  <<"<", node.tagName>>
    \o (IF serializeKnownAttributes(node.attributes) = <<>> THEN <<>>
        ELSE <<" ">> \o serializeKnownAttributes(node.attributes))
    \o <<">">> \o children \o <<"<", "/", node.tagName, ">">>

\* results of the children of n, by position
ProcessedItems(n) == [i \in 1..Len(Children(n)) |-> out[Children(n)[i]]]

\* faulty variant: the transformer is called without awaiting the children
ChildrenNotAwaited(n) == TRUE
\* every member of the children join of n has resolved (n = 0: the fragment)
ChildrenResolved(n) ==
  \A i \in 1..Len(Children(n)) : st[Children(n)[i]] = "resolved"
ChildRejected(n) ==
  \E i \in 1..Len(Children(n)) : st[Children(n)[i]] = "rejected"

\* history: n settles while a sibling that precedes it is still pending
SettlesOutOfOrder(n) ==
  \E m \in Nodes : /\ m < n
                   /\ doc[m].parent = doc[n].parent
                   /\ st[m] \notin {"resolved", "rejected"}

Resolve(n, s) ==
  /\ st' = [st EXCEPT ![n] = "resolved"]
  /\ out' = [out EXCEPT ![n] = s]
  /\ outOfOrder' = (outOfOrder \/ SettlesOutOfOrder(n))

Reject(n) ==
  /\ st' = [st EXCEPT ![n] = "rejected"]
  /\ outOfOrder' = (outOfOrder \/ SettlesOutOfOrder(n))
  /\ UNCHANGED out

---------------------------------------------------------------------------
(* Initial states *)

InitRun ==
  /\ st = [n \in Nodes |-> "children"]
  /\ out = [n \in Nodes |-> <<>>]
  /\ invoked = [n \in Nodes |-> 0]
  /\ fileReference = [n \in Nodes |-> 0]
  /\ files = <<>>
  /\ assets = <<>>
  /\ failed = {}
  /\ errorLog = {}
  /\ outOfOrder = FALSE
  /\ traversal = "running"
  /\ result = <<>>
  /\ runPc = "traverse"
  /\ calls = <<>>
  /\ persisted = <<>>

Init ==
  /\ variant \in {"mapi", "registry"}
  /\ \E par \in Parents, kind \in [Nodes -> NodeKinds(variant)] :
        /\ \A n \in Nodes : par[n] # 0 => ~IsLeafKind(kind[par[n]])
        /\ doc = [n \in Nodes |->
                    [type |-> kind[n].type, tagName |-> kind[n].tagName,
                     attributes |-> kind[n].attributes,
                     content |-> kind[n].content, parent |-> par[n]]]
  /\ InitRun
  /\ attrInput = <<>>
  /\ attrOutput = <<>>
  /\ attrPc = "idle"

---------------------------------------------------------------------------
(* transformNodeToMapiRichText, one invocation per node *)

Invoke(n) == invoked' = [invoked EXCEPT ![n] = @ + 1]

\* the call of the transformer up to its first await, or to its return
TransformMapi(n) ==
  /\ variant = "mapi"
  /\ st[n] = "children"
  /\ ChildrenResolved(n)
  /\ Invoke(n)
  /\ IF TakesUploadBranch(doc[n])
     THEN /\ st' = [st EXCEPT ![n] = "fetch"]
          /\ UNCHANGED <<out, outOfOrder>>
     ELSE Resolve(n, MapiResult(doc[n], ProcessedItems(n)))
  /\ UNCHANGED <<treeVars, fileReference, files, assets, failed, errorLog,
                 traversal, result, runVars, attrVars>>

\* await axios.get(...) returned
FetchDone(n) ==
  /\ st[n] = "fetch"
  /\ st' = [st EXCEPT ![n] = "upload"]
  /\ UNCHANGED <<treeVars, out, invoked, fileReference, files, assets, failed,
                 errorLog, outOfOrder, traversal, result, runVars, attrVars>>

\* await uploadBinaryFile()...toPromise() returned: fileReference is set
UploadDone(n) ==
  /\ st[n] = "upload"
  /\ files' = Append(files, n)
  /\ fileReference' = [fileReference EXCEPT ![n] = Len(files) + 1]
  /\ st' = [st EXCEPT ![n] = "addAsset"]
  /\ UNCHANGED <<treeVars, out, invoked, assets, failed, errorLog, outOfOrder,
                 traversal, result, runVars, attrVars>>

\* faulty variant: the file reference kept in one place shared by all tasks
LastUploadedFile(n) == Len(files)
\* file_reference: fileReference of the addAsset call of node n
FileReferenceOf(n) == fileReference[n]

\* await addAsset()...toPromise() returned; return the figure
AddAssetDone(n) ==
  /\ st[n] = "addAsset"
  /\ Len(assets) < Len(AssetIds)
  /\ assets' = Append(assets, [file |-> FileReferenceOf(n)])
  /\ Resolve(n, Figure(AssetIds[Len(assets) + 1]))
  /\ UNCHANGED <<treeVars, invoked, fileReference, files, failed, errorLog,
                 traversal, result, runVars, attrVars>>

\* faulty variant: the error is passed on instead of handled
CatchErrorRethrows(n) ==
  /\ st[n] \in {"fetch", "upload", "addAsset"}
  /\ failed' = failed \cup {n}
  /\ Reject(n)
  /\ UNCHANGED <<treeVars, invoked, fileReference, files, assets, errorLog,
                 traversal, result, runVars, attrVars>>
\* catch (error): one of the three awaits threw
CatchError(n) ==
  /\ st[n] \in {"fetch", "upload", "addAsset"}
  /\ failed' = failed \cup {n}
  /\ errorLog' = errorLog \cup {n}
  /\ Resolve(n, Placeholder(doc[n]))
  /\ UNCHANGED <<treeVars, invoked, fileReference, files, assets,
                 traversal, result, runVars, attrVars>>

---------------------------------------------------------------------------
(* The registry of 0-add-rich-text-content.ts, one invocation per element *)

\* transformers[node.tagName] is defined
Registered(node) == isElement(node) /\ node.tagName \in {"i", "img"}

\* transformers.i
TransformI(n) ==
  /\ variant = "registry"
  /\ st[n] = "children"
  /\ ChildrenResolved(n)
  /\ isElement(doc[n]) /\ doc[n].tagName = "i"
  /\ Invoke(n)
  /\ Resolve(n, EmTransformer(JoinItems(ProcessedItems(n))))
  /\ UNCHANGED <<treeVars, fileReference, files, assets, failed, errorLog,
                 traversal, result, runVars, attrVars>>

\* transformers.img up to reject("Invalid IMG tag...") or to its await
TransformImg(n) ==
  /\ variant = "registry"
  /\ st[n] = "children"
  /\ ChildrenResolved(n)
  /\ isElement(doc[n]) /\ doc[n].tagName = "img"
  /\ Invoke(n)
  /\ IF ~HasSrc(doc[n])
     THEN Reject(n)
     ELSE /\ st' = [st EXCEPT ![n] = "uploadAssetFromUrl"]
          /\ UNCHANGED <<out, outOfOrder>>
  /\ UNCHANGED <<treeVars, fileReference, files, assets, failed, errorLog,
                 traversal, result, runVars, attrVars>>

\* uploadAssetFromUrl()...toPromise().then(res => res.data.id); resolve(figure)
UploadAssetFromUrlDone(n) ==
  /\ st[n] = "uploadAssetFromUrl"
  /\ Len(assets) < Len(AssetIds)
  /\ files' = Append(files, n)
  /\ assets' = Append(assets, [file |-> Len(files) + 1])
  /\ Resolve(n, Figure(AssetIds[Len(assets) + 1]))
  /\ UNCHANGED <<treeVars, invoked, fileReference, failed, errorLog,
                 traversal, result, runVars, attrVars>>

\* .catch((err) => reject(err)): the promise is rejected, and the resolve(...)
\* that follows acts on a settled promise and changes nothing
UploadAssetFromUrlFail(n) ==
  /\ st[n] = "uploadAssetFromUrl"
  /\ failed' = failed \cup {n}
  /\ Reject(n)
  /\ UNCHANGED <<treeVars, invoked, fileReference, files, assets, errorLog,
                 traversal, result, runVars, attrVars>>

---------------------------------------------------------------------------
(* Traversal engine *)

\* registry: a text node, or an element with no registered transformer
EngineDefault(n) ==
  /\ variant = "registry"
  /\ st[n] = "children"
  /\ ChildrenResolved(n)
  /\ ~Registered(doc[n])
  /\ Resolve(n, IF isElement(doc[n])
                THEN DefaultTransformer(doc[n], JoinItems(ProcessedItems(n)))
                ELSE <<doc[n].content>>)
  /\ UNCHANGED <<treeVars, invoked, fileReference, files, assets, failed,
                 errorLog, traversal, result, runVars, attrVars>>

\* the join of the children of n rejected: n rejects, its transformer is
\* not called
PropagateReject(n) ==
  /\ st[n] = "children"
  /\ ChildRejected(n)
  /\ Reject(n)
  /\ UNCHANGED <<treeVars, invoked, fileReference, files, assets, failed,
                 errorLog, traversal, result, runVars, attrVars>>

\* the top-level call resolves; .then((result) => result.join(""))
TraversalResolve ==
  /\ traversal = "running"
  /\ ChildrenResolved(0)
  /\ traversal' = "resolved"
  /\ result' = JoinItems(ProcessedItems(0))
  /\ UNCHANGED <<treeVars, st, out, invoked, fileReference, files, assets,
                 failed, errorLog, outOfOrder, runVars, attrVars>>

TraversalReject ==
  /\ traversal = "running"
  /\ ChildRejected(0)
  /\ traversal' = "rejected"
  /\ UNCHANGED <<treeVars, st, out, invoked, fileReference, files, assets,
                 failed, errorLog, outOfOrder, result, runVars, attrVars>>

---------------------------------------------------------------------------
(* migration.run, from the traversal on *)

nodeVars == <<st, out, invoked, fileReference, files, assets, failed, errorLog,
              outOfOrder, traversal, result>>

\* faulty variant: run goes on without awaiting the traversal
NotAwaited == TRUE
\* `await traverse...` has returned a value
TraversalAwaited == traversal = "resolved"

\* await apiClient.addContentItem()...toPromise()
RunAddContentItem ==
  /\ runPc = "traverse"
  /\ TraversalAwaited
  /\ calls' = Append(calls, "addContentItem")
  /\ \E ok \in BOOLEAN :
       runPc' = IF ok THEN "upsertLanguageVariant" ELSE "rejected"
  /\ UNCHANGED <<treeVars, nodeVars, persisted, attrVars>>

\* await apiClient.upsertLanguageVariant()...withData(value: transformedRichText)
RunUpsertLanguageVariant ==
  /\ runPc = "upsertLanguageVariant"
  /\ calls' = Append(calls, "upsertLanguageVariant")
  /\ \E ok \in BOOLEAN :
       /\ runPc' = IF ok THEN "done" ELSE "rejected"
       /\ persisted' = IF ok THEN Append(persisted, result) ELSE persisted
  /\ UNCHANGED <<treeVars, nodeVars, attrVars>>

\* the awaited traversal rejected: run rejects
RunReject ==
  /\ runPc = "traverse"
  /\ traversal = "rejected"
  /\ runPc' = "rejected"
  /\ UNCHANGED <<treeVars, nodeVars, calls, persisted, attrVars>>

Next ==
  \/ \E n \in Nodes :
       \/ TransformMapi(n)
       \/ FetchDone(n)
       \/ UploadDone(n)
       \/ AddAssetDone(n)
       \/ CatchError(n)
       \/ TransformI(n)
       \/ TransformImg(n)
       \/ UploadAssetFromUrlDone(n)
       \/ UploadAssetFromUrlFail(n)
       \/ EngineDefault(n)
       \/ PropagateReject(n)
  \/ TraversalResolve
  \/ TraversalReject
  \/ RunAddContentItem
  \/ RunUpsertLanguageVariant
  \/ RunReject

Spec == Init /\ [][Next]_vars

---------------------------------------------------------------------------
(* serializeKnownAttributes on its own *)

\* attribute names outside the allow-list
OtherNames == {"onclick", "class", "style"}

AttrNames ==
  {allowedRichTextElementAttributes[i] :
     i \in 1..Len(allowedRichTextElementAttributes)} \cup OtherNames

AttrValues == {"x", Undefined}

\* attribute mappings in Object.entries order: keys are distinct
AttrMappings ==
  UNION { { m \in [1..k -> AttrNames \X AttrValues] :
              \A i, j \in 1..k : i # j => m[i][1] # m[j][1] } : k \in 0..MaxAttrs }

InitAttr ==
  /\ variant = "mapi"
  /\ doc = [n \in Nodes |->
              [type |-> "text", tagName |-> "", attributes |-> <<>>,
               content |-> "hi", parent |-> 0]]
  /\ InitRun
  /\ attrInput \in AttrMappings
  /\ attrOutput = <<>>
  /\ attrPc = "input"

Serialize ==
  /\ attrPc = "input"
  /\ attrOutput' = serializeKnownAttributes(attrInput)
  /\ attrPc' = "serialized"
  /\ UNCHANGED <<treeVars, nodeVars, runVars, attrInput>>

SpecAttr == InitAttr /\ [][Serialize]_vars

---------------------------------------------------------------------------
(* Properties of the traversal *)

RECURSIVE SumLen(_)
\* total length of a sequence of strings
SumLen(items) ==
  IF Len(items) = 0 THEN 0 ELSE Len(items[1]) + SumLen(Tail(items))

\* the closing tag `</tag>` is four tokens long
CloseLen == 4

\* The results of the nodes `kids` lie in `whole`, one after the other in the
\* order of `kids`, ending `tailLen` tokens before the end of `whole`.
InSourceOrder(whole, kids, tailLen) ==
  \A i \in 1..Len(kids) :
    LET own   == out[kids[i]]
        after == SumLen([j \in 1..(Len(kids) - i) |-> out[kids[i + j]]])
        start == Len(whole) - tailLen - after - Len(own)
    IN  /\ Len(whole) >= tailLen + after + Len(own)
        /\ SubSeq(whole, start + 1, start + Len(own)) = own

\* C1. Order preservation: whatever the order in which sibling subtrees
\* complete, the joined output holds the siblings' contributions one after
\* the other in source order, for the fragment and for every element.
C1_OrderPreservation ==
  /\ traversal = "resolved" =>
       /\ InSourceOrder(result, Children(0), 0)
       /\ Len(result) = SumLen(ProcessedItems(0))
  /\ \A n \in Nodes :
       (st[n] = "resolved" /\ Len(Children(n)) > 0) =>
          InSourceOrder(out[n], Children(n), CloseLen)

\* two siblings with different contributions completed in reverse of source
\* order, and the fragment has been joined
C1_Witness ==
  /\ traversal = "resolved"
  /\ outOfOrder
  /\ \E a, b \in Nodes :
        a < b /\ doc[a].parent = doc[b].parent /\ out[a] # out[b]

\* the node has a transformer of the migration (in the registry migration a
\* text node and an unregistered element have none)
HasTransformer(n) == variant = "mapi" \/ Registered(doc[n])

AllSettled == \A n \in Nodes : st[n] \in {"resolved", "rejected"}

DescendantsResolved(n) ==
  \A d \in Descendants(n) :
     st[d] = "resolved" /\ (HasTransformer(d) => invoked[d] = 1)

RECURSIVE ExpectedMapi(_)
\* the output of node n as a function of the tree and of the results of the
\* img nodes that take the upload branch alone
ExpectedMapi(n) ==
  IF TakesUploadBranch(doc[n]) THEN out[n]
  ELSE IF isElement(doc[n])
  THEN <<"<", doc[n].tagName, " ">> \o serializeKnownAttributes(doc[n].attributes)
         \o <<">">>
         \o JoinWith([i \in 1..Len(Children(n)) |-> ExpectedMapi(Children(n)[i])], <<>>)
         \o <<"<", "/", doc[n].tagName, ">">>
  ELSE <<doc[n].content>>

C4_FailureFallbackRegistry ==
  variant = "registry" =>
    /\ \A n \in failed : st[n] = "resolved" /\ out[n] = Placeholder(doc[n])
    /\ failed # {} => traversal # "rejected"

IsImgWithoutSrc(n) ==
  isElement(doc[n]) /\ doc[n].tagName = "img" /\ ~HasSrc(doc[n])

\* C5. Missing source attribute: an img without src that is transformed, by
\* either migration, rejects without fetch, upload or fallback output, and
\* the enclosing traversal yields no output string.
C5_MissingSrcRejects ==
  \A n \in Nodes :
    (IsImgWithoutSrc(n) /\ invoked[n] >= 1) =>
       /\ st[n] = "rejected"
       /\ out[n] = <<>>
       /\ \A k \in 1..Len(files) : files[k] # n
       /\ traversal # "resolved"

\* C6. Resource success path: an img with src whose calls all succeed
\* resolves with exactly `<figure data-asset-id="ID"></figure>`, ID being the
\* asset the storage client created from the file uploaded for that node.
C6_SuccessPath ==
  \A n \in Nodes :
    (TakesUploadBranch(doc[n]) /\ st[n] = "resolved" /\ n \notin failed) =>
       \E j \in 1..Len(assets) :
          /\ out[n] = <<"<", "figure", " ", "data-asset-id", "=", "\"",
                        AssetIds[j], "\"", ">", "<", "/", "figure", ">">>
          /\ assets[j].file \in 1..Len(files)
          /\ files[assets[j].file] = n

\* two img nodes succeeded, their upload sequences interleaved: the node that
\* uploaded its file first registered its asset last
C6_Witness ==
  \E a, b \in Nodes :
     /\ a # b
     /\ st[a] = "resolved" /\ st[b] = "resolved"
     /\ a \notin failed /\ b \notin failed
     /\ \E j, k \in 1..Len(assets) :
           /\ j < k
           /\ assets[j].file > assets[k].file
           /\ files[assets[j].file] = a
           /\ files[assets[k].file] = b

---------------------------------------------------------------------------
(* Properties of serializeKnownAttributes *)

\* the attribute names of the target dialect
AllowList ==
  { "data-item-id", "data-item-external-id", "data-item-codename",
    "data-asset-id", "data-asset-external-id", "data-asset-codename",
    "data-new-window", "title", "target", "href", "data-image-id", "data-rel",
    "data-type", "data-codename", "data-id", "data-external-id", "src", "type",
    "data-email-address", "data-email-subject", "data-phone-number" }

AllPresent(entries) == \A i \in 1..Len(entries) : entries[i][2] # Undefined

\* `tokens` is the entries of `kept`, in order, each as key="value", with a
\* single space between neighbours and nothing else
IsSerializationOf(tokens, kept) ==
  /\ Len(tokens) = IF Len(kept) = 0 THEN 0 ELSE 6 * Len(kept) - 1
  /\ \A i \in 1..Len(kept) :
        LET at == 6 * (i - 1)
        IN  /\ tokens[at + 1] = kept[i][1]
            /\ tokens[at + 2] = "="
            /\ tokens[at + 3] = "\""
            /\ tokens[at + 4] = kept[i][2]
            /\ tokens[at + 5] = "\""
            /\ i < Len(kept) => tokens[at + 6] = " "

\* C7. Attribute filter: for a mapping of present values the result holds a
\* key="value" token for exactly the entries whose key is one of the 21
\* names of the allow-list, in the order of the mapping, joined by single
\* spaces; the function is total.
C7_AttributeFilter ==
  /\ Cardinality(AllowList) = 21
  /\ (attrPc = "serialized" /\ AllPresent(attrInput)) =>
        IsSerializationOf(attrOutput,
                          SelectSeq(attrInput, LAMBDA e : e[1] \in AllowList))

\* href is kept between two dropped names, and a second kept name follows
C7_Witness ==
  /\ attrPc = "serialized"
  /\ AllPresent(attrInput)
  /\ \E i, j \in 1..Len(attrInput) :
        /\ i < j
        /\ attrInput[i][1] = "onclick"
        /\ attrInput[j][1] = "href"
  /\ attrOutput = <<"href", "=", "\"", "x", "\"">>

\* C8. Absent-valued attributes: an allow-listed attribute whose value is
\* absent yields no token at all, and the other tokens are those of the
\* mapping without it.
C8_AbsentValueOmitted ==
  attrPc = "serialized" =>
     IsSerializationOf(attrOutput,
        SelectSeq(attrInput, LAMBDA e : e[1] \in AllowList /\ e[2] # Undefined))

---------------------------------------------------------------------------
(* Properties of the default re-emit and of run *)

\* the markup of an attribute mapping inside an opening tag
RECURSIVE SourceAttributes(_)
SourceAttributes(entries) ==
  IF Len(entries) = 0 THEN <<>>
  ELSE <<" ", entries[1][1], "=", "\"", entries[1][2], "\"">>
         \o SourceAttributes(Tail(entries))

RECURSIVE SourceMarkup(_)
\* the markup the parser read node n from: `<tag k="v" ...>inner</tag>`
SourceMarkup(n) ==
  IF isElement(doc[n])
  THEN <<"<", doc[n].tagName>> \o SourceAttributes(doc[n].attributes) \o <<">">>
         \o JoinWith([i \in 1..Len(Children(n)) |-> SourceMarkup(Children(n)[i])], <<>>)
         \o <<"<", "/", doc[n].tagName, ">">>
  ELSE <<doc[n].content>>

\* n is a text, or an element without special handling that carries only
\* allow-listed attributes
PlainNode(n) ==
  \/ ~isElement(doc[n])
  \/ /\ doc[n].tagName # "img"
     /\ \A i \in 1..Len(doc[n].attributes) :
           /\ doc[n].attributes[i][1] \in AllowList
           /\ doc[n].attributes[i][2] # Undefined

\* C9. Default transformer round-trip: an element without special handling,
\* with allow-listed attributes only (or none) and text or likewise-default
\* descendants, is re-emitted as exactly its input markup.
C9_DefaultRoundTrip ==
  variant = "mapi" =>
    \A n \in Nodes :
      (/\ st[n] = "resolved"
       /\ PlainNode(n)
       /\ \A d \in Descendants(n) : PlainNode(d)) => out[n] = SourceMarkup(n)

\* C10. All-or-nothing conversion: run calls addContentItem and then
\* upsertLanguageVariant only after the traversal resolved, persists the one
\* complete string, and after a rejected traversal makes neither call and can
\* only reject.
C10_AllOrNothing ==
  /\ calls \in { <<>>, <<"addContentItem">>,
                 <<"addContentItem", "upsertLanguageVariant">> }
  /\ calls # <<>> => (traversal = "resolved" /\ AllSettled)
  /\ traversal = "rejected" =>
        /\ calls = <<>>
        /\ persisted = <<>>
        /\ runPc \in {"traverse", "rejected"}
  /\ persisted # <<>> => (persisted = <<result>> /\ traversal = "resolved")
  /\ runPc = "done" =>
        /\ calls = <<"addContentItem", "upsertLanguageVariant">>
        /\ persisted = <<result>>
  /\ runPc = "upsertLanguageVariant" => calls = <<"addContentItem">>

\* a traversal rejected after a sibling had already produced its output, and
\* run rejected without a call
C10_Witness ==
  /\ traversal = "rejected"
  /\ runPc = "rejected"
  /\ calls = <<>>
  /\ \E n \in Nodes : st[n] = "resolved" /\ doc[n].parent = 0

===========================================================================
